---- MODULE Spec2Model ----
(***************************************************************************)
(* The verification bot of AymenHDF/Heavenly-Angel-bot.  The repository    *)
(* holds two revisions of the bot:                                         *)
(*   rev = "A"   src/unnamed/part_001: the store lives in memory only; a   *)
(*               text command !verify starts a verification and checks     *)
(*               the cooldown; the verify button always opens the modal.   *)
(*   rev = "B"   src/Invalid-bot/index.js: the store is persisted to       *)
(*               verifiedUsers.json; a staff command !verifybutton posts   *)
(*               the verify button, whose handler looks at the Verified    *)
(*               role.                                                     *)
(* A handler is a sequence of steps; a step runs from one await to the     *)
(* next, so handlers interleave at their awaits and nowhere else.          *)
(***************************************************************************)
EXTENDS Integers, Sequences, FiniteSets, TLC

\* ------------------------------------------------------------------ bounds

\* How many times the clock advances in one behaviour.
MaxTicks == 1
\* How many handlers (modal submissions and unverify clicks) are suspended
\* at an await at the same time.
MaxInFlight == 2

\* ------------------------------------------------------- program constants

\* 6 * 60 * 60 * 1000: the cooldown written by a verification, in ms.
CooldownMs == 6 * 60 * 60 * 1000
\* (cooldown - Date.now()) / 1000 / 60 / 60: one hour, in ms.
HourMs == 1000 * 60 * 60
\* setTimeout(..., 30000): how long a reply of !verify lives, in ms.
PromptTtlMs == 30 * 1000

GuildWithAngelRole == "Heavenly Spirits"

\* ----------------------------------------------------------- environment

Revs == {"A", "B"}
Users == {"u1", "u2"}
\* The users who act.
Actors == {"u1"}

\* interaction.user.tag of each user.
Tag(u) == IF u = "u1" THEN "Alice#0001" ELSE "Bob#0002"

\* What socialMedia.links.DISCORD of a fetched profile can hold: a user's
\* tag, the same tag in another case, or nothing.
NoHandle == "<undefined>"
Handles == {Tag(u) : u \in Users} \cup {"alice#0001", NoHandle}

\* The answers of the three lookups. null stands for a failed request.
Null == "<null>"
UuidAnswers == {Null, "uuid-1"}
PlayerAnswers == {Null} \cup Handles
GuildAnswers == {Null, GuildWithAngelRole, "Other Guild"}

\* The roles of the guild that the handlers look up by name, the member
\* cache entry and the welcome channel: each may be missing when read.
RoleNames == {"Verified", "Unverified", "Angel", "AngelLord", "AngelKing"}
Resources == RoleNames \cup {"member", "welcomeChannel"}

\* What a handler finds when it reads the caches: everything, or
\* everything but one of these.
Presences ==
  {Resources} \cup
  {Resources \ {r} :
     r \in {"member", "welcomeChannel", "Verified", "Unverified", "Angel"}}

\* How many of the two calls of saveStorage in a verification succeed.
SaveOutcomes == {0, 1, 2}

\* The clock advances by one of these steps.
TickSteps == {1, CooldownMs}

\* ---------------------------------------------- Set and Map of JavaScript

Range(s) == {s[i] : i \in 1..Len(s)}

\* A JavaScript Set, kept in insertion order.
SetHas(s, x) == x \in Range(s)
SetAdd(s, x) == IF SetHas(s, x) THEN s ELSE Append(s, x)
SetDelete(s, x) == SelectSeq(s, LAMBDA y : y # x)

\* A JavaScript Map, kept in insertion order, as a sequence of <<key, value>>.
MapHas(m, k) == \E i \in 1..Len(m) : m[i][1] = k
MapGet(m, k) == m[CHOOSE i \in 1..Len(m) : m[i][1] = k][2]
MapSet(m, k, v) ==
  IF MapHas(m, k)
  THEN [i \in 1..Len(m) |-> IF m[i][1] = k THEN <<k, v>> ELSE m[i]]
  ELSE Append(m, <<k, v>>)
MapDelete(m, k) == SelectSeq(m, LAMBDA e : e[1] # k)

\* Math.ceil(a / b) for a >= 0, b > 0.
CeilDiv(a, b) == (a + b - 1) \div b

\* -------------------------------------------------------------- the state

VARIABLES
  rev,            \* which revision of the bot runs
  now,            \* Date.now(), counted from the start of the bot
  ticks,          \* how many times the clock advanced
  verifiedUsers,  \* the Set verifiedUsers
  cooldowns,      \* the Map cooldowns
  storageFile,    \* the content of verifiedUsers.json (rev B)
  roles,          \* the roles each member holds on the platform
  verifyButton,   \* users whose verify button is shown (rev A), or the
                  \* posted button of !verifybutton for everyone (rev B)
  unverifyPrompt, \* users shown the prompt with the unverify button
  modalOpen,      \* users with the name-input modal open
  modalPc,        \* where each user's modal-submit handler is suspended
  modalLocal,     \* its locals: uuid, the linked handle, guildName
  modalLog,       \* the role stages it has passed: <<operation, role,
                  \* whether the role and the member were found>>
  unvPc,          \* where each user's unverify handler is suspended
  haMessage,      \* each user's last message to the channel, what its !ha
                  \* handler did with it and where that handler is suspended
  out             \* what the last step showed: the handler, the user, the reply

vars == <<rev, now, ticks, verifiedUsers, cooldowns, storageFile, roles,
          verifyButton, unverifyPrompt, modalOpen, modalPc, modalLocal,
          modalLog, unvPc, haMessage, out>>

storeVars == <<verifiedUsers, cooldowns, storageFile>>
uiVars == <<verifyButton, unverifyPrompt, modalOpen>>
modalVars == <<modalPc, modalLocal, modalLog>>
clockVars == <<now, ticks>>

\* What a step showed. reply is the message the step sent ("none" for a
\* step that sends nothing), admin the Administrator permission the step
\* read (FALSE when it reads none), hours the number in a cooldown notice,
\* log the role stages of a handler that ran to its end, escaped whether
\* the handler's promise rejected (an error nobody caught).
Out(kind, u, reply, admin, hours, log, escaped) ==
  [kind |-> kind, user |-> u, reply |-> reply, admin |-> admin,
   hours |-> hours, log |-> log, escaped |-> escaped, saw |-> "none"]

\* The reply of a lookup that failed its check, with the answer it saw.
Refusal(u, reply, answer) ==
  [Out("modal", u, reply, FALSE, 0, <<>>, FALSE) EXCEPT !.saw = answer]

\* A step that shows nothing.
Silent == Out("none", "u1", "none", FALSE, 0, <<>>, FALSE)
\* A handler whose promise rejected: nothing is shown, the error is logged
\* by the runtime as an unhandled rejection.
Escaped(kind, u) == Out(kind, u, "none", FALSE, 0, <<>>, TRUE)
\* The same, with the call that threw.
Threw(kind, u, call) == [Escaped(kind, u) EXCEPT !.saw = call]

\* The locals of a handler that is not running.
NoLocals == [uuid |-> Null, discord |-> NoHandle, guildName |-> "No Guild"]

\* A user who has sent no message: nothing to handle, nothing relayed.
NoMessage ==
  [content |-> <<>>, guildRoles |-> {}, memberRoles |-> {}, pc |-> "none",
   reply |-> "none", relayed |-> <<>>, deletes |-> 0, deleted |-> FALSE,
   logged |-> FALSE]

NoFile == "<no file>"

\* The powers of ten below 2 ^ 31.
PowersOfTen ==
  <<1, 10, 100, 1000, 10000, 100000, 1000000, 10000000, 100000000,
    1000000000>>

\* A number as JSON.stringify writes it: its decimal digits, the first of
\* which is not 0 unless the number is 0.
Digits(n) ==
  LET len == IF n < 10 THEN 1
             ELSE CHOOSE k \in 2..10 : PowersOfTen[k] <= n /\
                                       (k < 10 => n < PowersOfTen[k + 1])
  IN [i \in 1..len |-> (n \div PowersOfTen[len - i + 1]) % 10]

\* The number JSON.parse reads from decimal digits.
ParseNumber(ds) ==
  LET value[i \in 0..Len(ds)] ==
        IF i = 0 THEN 0 ELSE 10 * value[i - 1] + ds[i]
  IN value[Len(ds)]

\* The content of verifiedUsers.json. shape tells what JSON.parse makes of
\* the text: "object" is {"verifiedUsers": [...], "cooldowns": [[id, n]...]},
\* the two arrays being the fields of the record, numbers as the digits of
\* the text.
JsonFile(shape, vu, cd) ==
  [shape |-> shape, verifiedUsers |-> vu, cooldowns |-> cd]

\* JSON.stringify({ verifiedUsers: [], cooldowns: [] }, null, 2)
EmptyStore == JsonFile("object", <<>>, <<>>)

\* JSON.stringify({verifiedUsers: Array.from(verifiedUsers),
\*                 cooldowns: Array.from(cooldowns)})
Serialize(vu, cd) ==
  JsonFile("object", vu,
           [i \in 1..Len(cd) |-> <<cd[i][1], Digits(cd[i][2])>>])

\* loadStorage at the start finds no file and creates an empty one (rev B);
\* rev A has no file.
Init ==
  /\ rev \in Revs
  /\ now = 0
  /\ ticks = 0
  /\ verifiedUsers = <<>>
  /\ cooldowns = <<>>
  /\ storageFile = IF rev = "B" THEN EmptyStore ELSE NoFile
  /\ roles = [u \in Users |-> {"Unverified"}]
  /\ verifyButton = {}
  /\ unverifyPrompt = {}
  /\ modalOpen = {}
  /\ modalPc = [u \in Users |-> "idle"]
  /\ modalLocal = [u \in Users |-> NoLocals]
  /\ modalLog = [u \in Users |-> <<>>]
  /\ unvPc = [u \in Users |-> "idle"]
  /\ haMessage = [u \in Users |-> NoMessage]
  /\ out = Silent

InFlight ==
  Cardinality({u \in Users : modalPc[u] # "idle"})
    + Cardinality({u \in Users : unvPc[u] # "idle"})

\* ---------------------------------------------------------------- the clock

\* Time passes. The replies of !verify (rev A) delete themselves after 30 s;
\* a delete that fails is caught and the reply stays.
Tick(d, deleted) ==
  /\ out = Silent
  /\ ticks < MaxTicks
  /\ now' = now + d
  /\ ticks' = ticks + 1
  /\ IF rev = "A" /\ d >= PromptTtlMs /\ deleted
     THEN verifyButton' = {} /\ unverifyPrompt' = {}
     ELSE UNCHANGED <<verifyButton, unverifyPrompt>>
  /\ out' = Silent
  /\ UNCHANGED <<rev, haMessage, storeVars, roles, modalOpen, modalVars, unvPc>>

\* What the last step showed has been delivered; the next event is handled.
Deliver ==
  /\ out # Silent
  /\ out' = Silent
  /\ UNCHANGED <<rev, haMessage, clockVars, storeVars, roles, uiVars, modalVars, unvPc>>

\* ------------------------------------------------ starting a verification

\* OnCooldown with the comparison made inclusive: Date.now() <= cooldown.
OnCooldownInclusive(u, isAdmin) ==
  /\ MapHas(cooldowns, u)
  /\ MapGet(cooldowns, u) # 0
  /\ now <= MapGet(cooldowns, u)
  /\ ~isAdmin

\* cooldown && Date.now() < cooldown && !isAdmin
OnCooldown(u, isAdmin) ==
  /\ MapHas(cooldowns, u)
  /\ MapGet(cooldowns, u) # 0
  /\ now < MapGet(cooldowns, u)
  /\ ~isAdmin

\* RemainingHours with Math.floor in place of Math.ceil.
RemainingHoursFloor(u) == (MapGet(cooldowns, u) - now) \div HourMs

\* Math.ceil((cooldown - Date.now()) / 1000 / 60 / 60)
RemainingHours(u) == CeilDiv(MapGet(cooldowns, u) - now, HourMs)

\* rev A: the text command !verify in the verify channel.
VerifyCommand(u, isAdmin) ==
  /\ out = Silent
  /\ rev = "A"
  /\ IF SetHas(verifiedUsers, u)
     THEN IF OnCooldown(u, isAdmin)
          THEN /\ out' = Out("verifyCommand", u, "CooldownNotice", isAdmin,
                             RemainingHours(u), <<>>, FALSE)
               /\ UNCHANGED uiVars
          ELSE /\ out' = Out("verifyCommand", u, "UnverifyPrompt", isAdmin,
                             0, <<>>, FALSE)
               /\ unverifyPrompt' = unverifyPrompt \cup {u}
               /\ UNCHANGED <<verifyButton, modalOpen>>
     ELSE /\ out' = Out("verifyCommand", u, "VerifyPrompt", FALSE,
                        0, <<>>, FALSE)
          /\ verifyButton' = verifyButton \cup {u}
          /\ UNCHANGED <<unverifyPrompt, modalOpen>>
  /\ UNCHANGED <<rev, haMessage, clockVars, storeVars, roles, modalVars, unvPc>>

\* rev A: a click on the verify button always shows the modal.
VerifyButtonA(u) ==
  /\ out = Silent
  /\ rev = "A"
  /\ u \in verifyButton
  /\ modalOpen' = modalOpen \cup {u}
  /\ out' = Out("verifyButton", u, "Modal", FALSE, 0, <<>>, FALSE)
  /\ UNCHANGED <<rev, haMessage, clockVars, storeVars, roles, verifyButton,
                 unverifyPrompt, modalVars, unvPc>>

\* rev B: the staff command !verifybutton posts the verify button in the
\* verify channel, where every user can click it. The command is followed
\* until the button is there: a second button is one more of the same.
VerifybuttonCommand(u, staffRole, hasPermission) ==
  /\ out = Silent
  /\ rev = "B"
  /\ verifyButton = {}
  /\ IF ~staffRole
     THEN /\ out' = Out("verifybuttonCommand", u, "NoStaffRole",
                        FALSE, 0, <<>>, FALSE)
          /\ UNCHANGED verifyButton
     ELSE IF ~hasPermission
     THEN /\ out' = Out("verifybuttonCommand", u, "NoPermission",
                        FALSE, 0, <<>>, FALSE)
          /\ UNCHANGED verifyButton
     ELSE /\ out' = Out("verifybuttonCommand", u, "Button",
                        FALSE, 0, <<>>, FALSE)
          /\ verifyButton' = Users
  /\ UNCHANGED <<rev, haMessage, clockVars, storeVars, roles, unverifyPrompt, modalOpen,
                 modalVars, unvPc>>

\* rev B: a click on the verify button. A member who holds the Verified
\* role is shown the unverify prompt, any other member the modal; a user
\* who is not in the member cache gets nothing.
VerifyButtonB(u, member) ==
  /\ out = Silent
  /\ rev = "B"
  /\ u \in verifyButton
  /\ IF ~member
     THEN /\ out' = Silent
          /\ UNCHANGED <<unverifyPrompt, modalOpen>>
     ELSE IF "Verified" \in roles[u]
     THEN /\ out' = Out("verifyButton", u, "UnverifyPrompt",
                        FALSE, 0, <<>>, FALSE)
          /\ unverifyPrompt' = unverifyPrompt \cup {u}
          /\ UNCHANGED modalOpen
     ELSE /\ out' = Out("verifyButton", u, "Modal", FALSE, 0, <<>>, FALSE)
          /\ modalOpen' = modalOpen \cup {u}
          /\ UNCHANGED unverifyPrompt
  /\ UNCHANGED <<rev, haMessage, clockVars, storeVars, roles, verifyButton,
                 modalVars, unvPc>>

\* ------------------------------------------------------- role mutations

\* What a stage of a handler awaits: the operation and the role.
StageOp(stage) ==
  IF stage \in {"addVerified", "addAngel", "addUnverified"} THEN "add"
  ELSE "remove"

StageRole(stage) ==
  CASE stage \in {"addVerified", "removeVerified"} -> "Verified"
    [] stage \in {"addUnverified", "removeUnverified"} -> "Unverified"
    [] stage \in {"addAngel", "removeAngel"} -> "Angel"
    [] stage = "removeAngelLord" -> "AngelLord"
    [] stage = "removeAngelKing" -> "AngelKing"

\* member.roles.add(role) / member.roles.remove(role) once the platform
\* has accepted it.
ApplyRole(held, stage) ==
  IF StageOp(stage) = "add" THEN held \cup {StageRole(stage)}
  ELSE held \ {StageRole(stage)}

\* await member.roles.add(...).catch(console.error): a call the platform
\* rejects is logged and changes nothing.
RolesAfter(u, stage, accepted) ==
  IF accepted THEN [roles EXCEPT ![u] = ApplyRole(roles[u], stage)] ELSE roles

\* The first stage of chain behind position after whose await is reached,
\* reached being the stages whose guards hold: the others are skipped
\* without suspending.
NextStage(chain, after, reached) ==
  LET later == {i \in (after + 1)..Len(chain) : chain[i] \in reached}
  IN IF later = {} THEN "final"
     ELSE chain[CHOOSE i \in later : \A j \in later : i <= j]

Position(chain, stage) == CHOOSE i \in 1..Len(chain) : chain[i] = stage

\* What a stage looks up before its await: the welcome channel, or a role.
StageResource(stage) ==
  IF stage = "welcome" THEN "welcomeChannel" ELSE StageRole(stage)

\* What a step that continues behind position after of chain can find in
\* the caches: it reads the resources of the stages still ahead, and the
\* member cache, and nothing else.
PresencesRead(chain, after) ==
  LET ahead == {StageResource(chain[i]) : i \in (after + 1)..Len(chain)}
      read == IF ahead = {} THEN {} ELSE ahead \cup {"member"}
  IN {present \in Presences : Resources \ present \subseteq read}

\* ------------------------------------------------------ the modal submission

LowerCase(handle) == IF handle = "Alice#0001" THEN "alice#0001" ELSE handle

\* DiscordLinked with the handles compared without regard to case.
DiscordLinkedAnyCase(handle, u) ==
  handle # NoHandle /\ LowerCase(handle) = LowerCase(Tag(u))

\* socialMedia && socialMedia.links &&
\*   socialMedia.links.DISCORD === interaction.user.tag
DiscordLinked(handle, u) == handle # NoHandle /\ handle = Tag(u)

\* NewCooldown with a cooldown of one hour.
NewCooldownOneHour == now + HourMs

\* Date.now() + 6 * 60 * 60 * 1000
NewCooldown == now + CooldownMs

\* The awaits behind the welcome image, in the order of the code.
ModalChain == <<"welcome", "addVerified", "removeUnverified", "addAngel">>

\* ModalReached without the test of the guild name.
ModalReachedAnyGuild(u, stage, present) ==
  CASE stage = "welcome" -> "welcomeChannel" \in present
    [] stage = "addAngel" ->
         rev = "B" /\ "Angel" \in present /\ "member" \in present
    [] OTHER -> StageRole(stage) \in present /\ "member" \in present

\* if (welcomeChannel), if (verifiedRole) { if (member) ...},
\* if (guildName === "Heavenly Spirits") { if (angelRole) ... } (rev B only)
ModalReached(u, stage, present) ==
  CASE stage = "welcome" -> "welcomeChannel" \in present
    [] stage = "addAngel" ->
         /\ rev = "B"
         /\ modalLocal[u].guildName = GuildWithAngelRole
         /\ "Angel" \in present
         /\ "member" \in present
    [] OTHER -> StageRole(stage) \in present /\ "member" \in present

\* The role stages the handler looks a role up for.
ModalLooksUp(u, stage) ==
  /\ stage # "welcome"
  /\ stage = "addAngel" =>
       rev = "B" /\ modalLocal[u].guildName = GuildWithAngelRole

\* What a step of the modal handler that continues behind position after
\* can find in the caches: the Angel role is read only where it is looked up.
ModalPresences(u, after) ==
  {present \in PresencesRead(ModalChain, after) :
     "Angel" \notin present => ModalLooksUp(u, "addAngel")}

\* What the handler logs for the stages from position from + 1 to to.
ModalPassed(u, from, to, present) ==
  LET stages == SelectSeq([k \in 1..(to - from) |-> ModalChain[from + k]],
                          LAMBDA st : ModalLooksUp(u, st))
  IN [k \in 1..Len(stages) |->
        <<StageOp(stages[k]), StageRole(stages[k]),
          ModalReached(u, stages[k], present)>>]

\* The end of the handler, which runs without suspending: the store is
\* written, then the reply is sent. saveStorage (rev B) throws when the
\* file cannot be written, and what follows it does not run: saves is the
\* number of calls of saveStorage that succeed.
\* [vu, cd, file: the store afterwards; done: the reply was reached]
ModalStore(u, isAdmin, saves) ==
  LET vu == SetAdd(verifiedUsers, u)
      cd == MapSet(cooldowns, u, NewCooldown)
  IN IF rev = "A"
     THEN [vu |-> vu, cd |-> IF isAdmin THEN cooldowns ELSE cd,
           file |-> storageFile, done |-> TRUE]
     ELSE IF saves = 0
     THEN [vu |-> vu, cd |-> cooldowns, file |-> storageFile, done |-> FALSE]
     ELSE IF isAdmin
     THEN [vu |-> vu, cd |-> cooldowns, file |-> Serialize(vu, cooldowns),
           done |-> TRUE]
     ELSE IF saves = 1
     THEN [vu |-> vu, cd |-> cd, file |-> Serialize(vu, cooldowns),
           done |-> FALSE]
     ELSE [vu |-> vu, cd |-> cd, file |-> Serialize(vu, cd), done |-> TRUE]

\* From the await that just resolved (position after of ModalChain, the
\* roles being held) to the next await, or through the end of the handler.
ModalProceed(u, after, held, present) ==
  LET stage == NextStage(ModalChain, after,
                         {st \in Range(ModalChain) :
                            ModalReached(u, st, present)})
      to == IF stage = "final" THEN Len(ModalChain)
            ELSE Position(ModalChain, stage)
      log == modalLog[u] \o ModalPassed(u, after, to, present)
  IN /\ roles' = held
     /\ IF stage # "final"
        THEN /\ modalPc' = [modalPc EXCEPT ![u] = stage]
             /\ modalLog' = [modalLog EXCEPT ![u] = log]
             /\ out' = Silent
             /\ UNCHANGED <<storeVars, modalLocal>>
        ELSE \E isAdmin \in BOOLEAN :
             \E saves \in {n \in SaveOutcomes :
                             IF rev = "A" THEN n = 0 ELSE isAdmin => n < 2} :
               LET end == ModalStore(u, isAdmin, saves)
               IN /\ modalPc' = [modalPc EXCEPT ![u] = "idle"]
                  /\ modalLog' = [modalLog EXCEPT ![u] = <<>>]
                  /\ modalLocal' = [modalLocal EXCEPT ![u] = NoLocals]
                  /\ verifiedUsers' = end.vu
                  /\ cooldowns' = end.cd
                  /\ storageFile' = end.file
                  /\ out' = IF end.done
                            THEN Out("modal", u, "Success", isAdmin, 0,
                                     log, FALSE)
                            ELSE Threw("modal", u, "saveStorage")
     /\ UNCHANGED <<rev, haMessage, clockVars, uiVars, unvPc>>

\* The user submits the modal: the handler asks Mojang for the UUID.
ModalSubmit(u) ==
  /\ out = Silent
  /\ u \in modalOpen
  /\ modalPc[u] = "idle"
  /\ InFlight < MaxInFlight
  /\ modalOpen' = modalOpen \ {u}
  /\ modalPc' = [modalPc EXCEPT ![u] = "uuid"]
  /\ out' = Silent
  /\ UNCHANGED <<rev, haMessage, clockVars, storeVars, roles, verifyButton,
                 unverifyPrompt, modalLocal, modalLog, unvPc>>

\* ModalReply with the user marked verified before the reply is sent.
ModalReplyAfterAdd(u, reply, answer) ==
  /\ modalPc' = [modalPc EXCEPT ![u] = "idle"]
  /\ modalLocal' = [modalLocal EXCEPT ![u] = NoLocals]
  /\ verifiedUsers' = SetAdd(verifiedUsers, u)
  /\ out' = Refusal(u, reply, answer)
  /\ UNCHANGED <<rev, haMessage, clockVars, cooldowns, storageFile, roles, uiVars,
                 modalLog, unvPc>>

\* The handler ends with the reply of a check that failed.
ModalReply(u, reply, answer) ==
  /\ modalPc' = [modalPc EXCEPT ![u] = "idle"]
  /\ modalLocal' = [modalLocal EXCEPT ![u] = NoLocals]
  /\ out' = Refusal(u, reply, answer)
  /\ UNCHANGED <<rev, haMessage, clockVars, storeVars, roles, uiVars, modalLog, unvPc>>

\* getUUIDFromUsername answered.
ModalUuid(u, uuid) ==
  /\ out = Silent
  /\ modalPc[u] = "uuid"
  /\ IF uuid = Null
     THEN ModalReply(u, "NotFound", uuid)
     ELSE /\ modalPc' = [modalPc EXCEPT ![u] = "player"]
          /\ modalLocal' = [modalLocal EXCEPT ![u].uuid = uuid]
          /\ out' = Silent
          /\ UNCHANGED <<rev, haMessage, clockVars, storeVars, roles, uiVars,
                         modalLog, unvPc>>

\* getHypixelPlayerData answered: player is null, or the profile, of which
\* the linked Discord handle is kept.
ModalPlayer(u, player) ==
  /\ out = Silent
  /\ modalPc[u] = "player"
  /\ IF player = Null
     THEN ModalReply(u, "Unavailable", player)
     ELSE IF ~DiscordLinked(player, u)
     THEN ModalReply(u, "NotLinked", player)
     ELSE /\ modalPc' = [modalPc EXCEPT ![u] = "guild"]
          /\ modalLocal' = [modalLocal EXCEPT ![u].discord = player]
          /\ out' = Silent
          /\ UNCHANGED <<rev, haMessage, clockVars, storeVars, roles, uiVars,
                         modalLog, unvPc>>

\* getHypixelGuildData answered: guildData?.name || "No Guild".
ModalGuild(u, guild) ==
  /\ out = Silent
  /\ modalPc[u] = "guild"
  /\ modalLocal' = [modalLocal EXCEPT
                      ![u].guildName = IF guild = Null THEN "No Guild"
                                       ELSE guild]
  /\ modalPc' = [modalPc EXCEPT ![u] = "image"]
  /\ out' = Silent
  /\ UNCHANGED <<rev, haMessage, clockVars, storeVars, roles, uiVars, modalLog, unvPc>>

\* generateWelcomeImage returned.
ModalImage(u) ==
  /\ out = Silent
  /\ modalPc[u] = "image"
  /\ \E present \in ModalPresences(u, 0) :
       ModalProceed(u, 0, roles, present)

\* welcomeChannel.send resolved, or rejected: nothing catches that.
ModalWelcome(u, sent) ==
  /\ out = Silent
  /\ modalPc[u] = "welcome"
  /\ IF sent
     THEN \E present \in ModalPresences(u, 1) :
            ModalProceed(u, 1, roles, present)
     ELSE /\ modalPc' = [modalPc EXCEPT ![u] = "idle"]
          /\ modalLog' = [modalLog EXCEPT ![u] = <<>>]
          /\ modalLocal' = [modalLocal EXCEPT ![u] = NoLocals]
          /\ out' = Threw("modal", u, "welcomeChannel.send")
          /\ UNCHANGED <<rev, haMessage, clockVars, storeVars, roles, uiVars, unvPc>>

\* ModalRole without the .catch(console.error): a rejected role call ends
\* the handler.
ModalRoleAborting(u, accepted) ==
  /\ out = Silent
  /\ modalPc[u] \in {"addVerified", "removeUnverified", "addAngel"}
  /\ IF accepted
     THEN LET at == Position(ModalChain, modalPc[u])
          IN \E present \in ModalPresences(u, at) :
               ModalProceed(u, at, RolesAfter(u, modalPc[u], TRUE), present)
     ELSE /\ modalPc' = [modalPc EXCEPT ![u] = "idle"]
          /\ modalLog' = [modalLog EXCEPT ![u] = <<>>]
          /\ modalLocal' = [modalLocal EXCEPT ![u] = NoLocals]
          /\ out' = Threw("modal", u, "member.roles")
          /\ UNCHANGED <<rev, haMessage, clockVars, storeVars, roles, uiVars, unvPc>>

\* A role call of the handler resolved.
ModalRole(u, accepted) ==
  /\ out = Silent
  /\ modalPc[u] \in {"addVerified", "removeUnverified", "addAngel"}
  /\ LET at == Position(ModalChain, modalPc[u])
     IN \E present \in ModalPresences(u, at) :
          ModalProceed(u, at, RolesAfter(u, modalPc[u], accepted), present)

\* ------------------------------------------------------------ the unverify

\* The awaits of the unverify handler, in the order of the code.
UnverifyChain ==
  IF rev = "A" THEN <<"removeVerified", "addUnverified">>
  ELSE <<"removeVerified", "removeAngel", "removeAngelLord",
         "removeAngelKing", "addUnverified">>

\* if (role) { if (member) await ... }
UnverifyReached(stage, present) ==
  StageRole(stage) \in present /\ "member" \in present

\* UnverifyCooldowns with cooldowns.clear() in place of cooldowns.delete(id).
UnverifyCooldownsAll(u) ==
  IF rev = "A" THEN cooldowns ELSE SelectSeq(cooldowns, LAMBDA e : FALSE)

\* verifiedUsers.delete(id); cooldowns.delete(id) (rev B only)
UnverifyCooldowns(u) ==
  IF rev = "A" THEN cooldowns ELSE MapDelete(cooldowns, u)

\* From the await that just resolved to the next one, or to the reply that
\* ends the handler.
UnverifyProceed(u, after, held, present) ==
  LET stage == NextStage(UnverifyChain, after,
                         {st \in Range(UnverifyChain) :
                            UnverifyReached(st, present)})
  IN /\ roles' = held
     /\ IF stage # "final"
        THEN /\ unvPc' = [unvPc EXCEPT ![u] = stage]
             /\ out' = Silent
        ELSE /\ unvPc' = [unvPc EXCEPT ![u] = "idle"]
             /\ out' = Out("unverify", u, "Unverified", FALSE, 0, <<>>, FALSE)

\* A click on the unverify button: the store is changed and (rev B) saved
\* at once; a save that throws ends the handler there.
UnverifyClick(u, saved) ==
  /\ out = Silent
  /\ u \in unverifyPrompt
  /\ unvPc[u] = "idle"
  /\ InFlight < MaxInFlight
  /\ verifiedUsers' = SetDelete(verifiedUsers, u)
  /\ cooldowns' = UnverifyCooldowns(u)
  /\ IF rev = "B" /\ ~saved
     THEN /\ out' = Threw("unverify", u, "saveStorage")
          /\ UNCHANGED <<storageFile, roles, unvPc>>
     ELSE /\ storageFile' =
               IF rev = "B" THEN Serialize(verifiedUsers', cooldowns')
               ELSE storageFile
          /\ \E present \in PresencesRead(UnverifyChain, 0) :
               UnverifyProceed(u, 0, roles, present)
  /\ UNCHANGED <<rev, haMessage, clockVars, uiVars, modalVars>>

\* A role call of the unverify handler resolved.
UnverifyRole(u, accepted) ==
  /\ out = Silent
  /\ unvPc[u] # "idle"
  /\ LET at == Position(UnverifyChain, unvPc[u])
     IN \E present \in PresencesRead(UnverifyChain, at) :
          UnverifyProceed(u, at, RolesAfter(u, unvPc[u], accepted), present)
  /\ UNCHANGED <<rev, haMessage, clockVars, storeVars, uiVars, modalVars>>

Next ==
  \/ Deliver
  \/ \E d \in TickSteps, deleted \in BOOLEAN : Tick(d, deleted)
  \/ \E u \in Actors, isAdmin \in BOOLEAN : VerifyCommand(u, isAdmin)
  \/ \E u \in Actors : VerifyButtonA(u)
  \/ \E u \in Actors, staffRole \in BOOLEAN, hasPermission \in BOOLEAN :
        VerifybuttonCommand(u, staffRole, hasPermission)
  \/ \E u \in Actors, member \in BOOLEAN : VerifyButtonB(u, member)
  \/ \E u \in Actors : ModalSubmit(u)
  \/ \E u \in Actors, uuid \in UuidAnswers : ModalUuid(u, uuid)
  \/ \E u \in Actors, player \in PlayerAnswers : ModalPlayer(u, player)
  \/ \E u \in Actors, guild \in GuildAnswers : ModalGuild(u, guild)
  \/ \E u \in Actors : ModalImage(u)
  \/ \E u \in Actors, sent \in BOOLEAN : ModalWelcome(u, sent)
  \/ \E u \in Actors, accepted \in BOOLEAN : ModalRole(u, accepted)
  \/ \E u \in Actors, saved \in BOOLEAN : UnverifyClick(u, saved)
  \/ \E u \in Actors, accepted \in BOOLEAN : UnverifyRole(u, accepted)

Spec == Init /\ [][Next]_vars

\* ------------------------------------- the store and its file, on their own

\* The timestamps a cooldown map holds in the store specification.
StoreStamps == {0, 7, CooldownMs + 1}

\* The verified sets: every Set over the users, in every insertion order.
StoreSets ==
  {<<>>} \cup {<<u>> : u \in Users}
         \cup {<<p[1], p[2]>> : p \in {q \in Users \X Users : q[1] # q[2]}}

\* The cooldown maps: every Map from users to timestamps, in every order.
StoreMaps ==
  {<<>>} \cup {<<(<<u, t>>)>> : u \in Users, t \in StoreStamps}
         \cup {<<(<<p[1], t>>), (<<p[2], s>>)>> :
                 p \in {q \in Users \X Users : q[1] # q[2]},
                 t \in StoreStamps, s \in StoreStamps}

\* What loadStorage can find on disk besides a file written by saveStorage:
\* no file, a file that cannot be read, text that JSON.parse rejects, the
\* text null, an object whose cooldowns field is not iterable (its
\* verifiedUsers field being a proper array), and arrays written by hand
\* that name a user twice.
BrokenShapes == {"unreadable", "truncated", "null", "cooldownsNotIterable"}
StoreFiles ==
  {Serialize(vu, cd) : vu \in StoreSets, cd \in {m \in StoreMaps : Len(m) < 2}}
    \cup {Serialize(<<>>, cd) : cd \in StoreMaps}
    \cup {JsonFile(shape, <<>>, <<>>) : shape \in BrokenShapes \cup {"missing"}}
    \cup {JsonFile("cooldownsNotIterable", <<"u1">>, <<>>),
          JsonFile("object", <<"u1", "u1">>, <<>>),
          JsonFile("object", <<>>, <<(<<"u1", <<7>> >>), (<<"u1", <<0>> >>)>>)}

\* new Set(array): the elements in order, each once.
NewSet(array) ==
  LET built[i \in 0..Len(array)] ==
        IF i = 0 THEN <<>> ELSE SetAdd(built[i - 1], array[i])
  IN built[Len(array)]

\* LoadCooldowns with every entry dropped.
LoadCooldownsEmpty(entries) == SelectSeq(entries, LAMBDA e : FALSE)

\* new Map(array) of what JSON.parse read: the entries in order, a later
\* entry of a key replacing the value of the earlier one.
LoadCooldowns(entries) ==
  LET built[i \in 0..Len(entries)] ==
        IF i = 0 THEN <<>>
        ELSE MapSet(built[i - 1], entries[i][1], ParseNumber(entries[i][2]))
  IN built[Len(entries)]

\* The try block of loadStorage on a file that exists, started with the
\* empty store of the declarations: the store it leaves, and whether it
\* threw. The Set is assigned before the Map is built.
LoadTry(file) ==
  IF file.shape \in {"unreadable", "truncated", "null"}
  THEN [threw |-> TRUE, verifiedUsers |-> <<>>, cooldowns |-> <<>>]
  ELSE IF file.shape = "cooldownsNotIterable"
  THEN [threw |-> TRUE, verifiedUsers |-> NewSet(file.verifiedUsers),
        cooldowns |-> <<>>]
  ELSE [threw |-> FALSE, verifiedUsers |-> NewSet(file.verifiedUsers),
        cooldowns |-> LoadCooldowns(file.cooldowns)]

\* The store specification starts with the bot of rev B holding any store
\* in memory, beside any file.
StoreInit ==
  /\ rev = "B"
  /\ now = 0
  /\ ticks = 0
  /\ verifiedUsers \in StoreSets
  /\ cooldowns \in StoreMaps
  /\ storageFile \in StoreFiles
  /\ roles = [u \in Users |-> {"Unverified"}]
  /\ verifyButton = {}
  /\ unverifyPrompt = {}
  /\ modalOpen = {}
  /\ modalPc = [u \in Users |-> "idle"]
  /\ modalLocal = [u \in Users |-> NoLocals]
  /\ modalLog = [u \in Users |-> <<>>]
  /\ unvPc = [u \in Users |-> "idle"]
  /\ haMessage = [u \in Users |-> NoMessage]
  /\ out = Silent

\* saveStorage(). written: whether fs.writeFileSync succeeds; when it
\* throws, so does saveStorage.
SaveStorage(written) ==
  /\ storageFile' = IF written THEN Serialize(verifiedUsers, cooldowns)
                    ELSE storageFile
  /\ out' = Out("saveStorage", "u1", "none", FALSE, 0, <<>>, ~written)
  /\ UNCHANGED <<rev, haMessage, clockVars, verifiedUsers, cooldowns, roles, uiVars,
                 modalVars, unvPc>>

\* The bot starts again: the declarations make an empty store, then
\* loadStorage() runs. created: whether the write of the else branch
\* succeeds; reset: whether the write of the catch block succeeds.
LoadStorage(created, reset) ==
  LET exists == storageFile.shape # "missing"
      try == IF exists THEN LoadTry(storageFile)
             ELSE [threw |-> ~created, verifiedUsers |-> <<>>,
                   cooldowns |-> <<>>]
      caught == try.threw
  IN /\ verifiedUsers' = IF caught THEN <<>> ELSE try.verifiedUsers
     /\ cooldowns' = IF caught THEN <<>> ELSE try.cooldowns
     /\ storageFile' =
          IF (caught /\ reset) \/ (~exists /\ created) THEN EmptyStore
          ELSE storageFile
     /\ out' = Out("loadStorage", "u1", "none", FALSE, 0, <<>>,
                   caught /\ ~reset)
     /\ UNCHANGED <<rev, haMessage, clockVars, roles, uiVars, modalVars, unvPc>>

StoreNext ==
  \/ \E written \in BOOLEAN : SaveStorage(written)
  \/ \E created \in BOOLEAN, reset \in BOOLEAN : LoadStorage(created, reset)

StoreSpec == StoreInit /\ [][StoreNext]_vars

\* ------------------------------------------- handlers of different users

\* The users who verified before the race specification starts hold the
\* Verified role and a cooldown, and are shown the unverify prompt; the
\* others have the modal open.
RaceInit ==
  /\ rev = "B"
  /\ now = 0
  /\ ticks = 0
  /\ \E before \in SUBSET Users :
       /\ verifiedUsers \in {vu \in StoreSets : Range(vu) = before}
       /\ cooldowns \in {cd \in StoreMaps :
                           /\ {cd[i][1] : i \in 1..Len(cd)} = before
                           /\ \A i \in 1..Len(cd) : cd[i][2] = CooldownMs + 1}
       /\ roles = [u \in Users |->
                     IF u \in before THEN {"Verified"} ELSE {"Unverified"}]
       /\ unverifyPrompt = before
       /\ modalOpen = Users \ before
  /\ storageFile = Serialize(verifiedUsers, cooldowns)
  /\ verifyButton = Users
  /\ modalPc = [u \in Users |-> "idle"]
  /\ modalLocal = [u \in Users |-> NoLocals]
  /\ modalLog = [u \in Users |-> <<>>]
  /\ unvPc = [u \in Users |-> "idle"]
  /\ haMessage = [u \in Users |-> NoMessage]
  /\ out = Silent

\* The handlers of both users, with every write of the file and every send
\* succeeding: no handler ends by an error nobody caught.
RaceNext ==
  \/ Deliver
  \/ \E u \in Users : ModalSubmit(u)
  \/ \E u \in Users, uuid \in UuidAnswers : ModalUuid(u, uuid)
  \/ \E u \in Users, player \in PlayerAnswers : ModalPlayer(u, player)
  \/ \E u \in Users, guild \in GuildAnswers : ModalGuild(u, guild)
  \/ \E u \in Users : ModalImage(u) /\ ~out'.escaped
  \/ \E u \in Users : ModalWelcome(u, TRUE) /\ ~out'.escaped
  \/ \E u \in Users, accepted \in BOOLEAN :
        ModalRole(u, accepted) /\ ~out'.escaped
  \/ \E u \in Users : UnverifyClick(u, TRUE)
  \/ \E u \in Users, accepted \in BOOLEAN : UnverifyRole(u, accepted)

RaceSpec == RaceInit /\ [][RaceNext]_vars

\* ------------------------------------------- the rank and level of a profile

\* A field the fetched profile does not have.
Undefined == "<undefined field>"

\* The keys of the object literal rankMapping.
RankKeys == {"SUPERSTAR", "MVP_PLUS", "MVP", "VIP_PLUS", "VIP", "YOUTUBER",
             "ADMIN", "MODERATOR"}

\* Property names every object literal inherits from Object.prototype.
InheritedKeys == {"constructor", "toString"}

\* The values of rank, monthlyPackageRank and newPackageRank in a fetched
\* profile: no field, the tags the code names, tags the table does not
\* hold, and a tag that is a property name of every object.
RankTags == {Undefined, "NORMAL", "NONE", "HELPER", "constructor"} \cup RankKeys
PlusColors == {Undefined, "#FF5555"}

RankDisplay(name, color, plusColor) ==
  [name |-> name, color |-> color, plusColor |-> plusColor]

\* No rank has been computed.
NoRank == RankDisplay(Undefined, Undefined, Undefined)

\* playerData?.rankPlusColor || "#FFAA00"
PlusColor(playerData) ==
  IF playerData.rankPlusColor = Undefined THEN "#FFAA00"
  ELSE playerData.rankPlusColor

\* Whether rankMapping[key] is truthy: key is a key of the literal, or a
\* property the literal inherits.
RankMappingHas(key) == key \in RankKeys \cup InheritedKeys

\* rankMapping[key] where it is truthy. An inherited property is a
\* function, whose name is its own and which has no color.
RankMappingGet(playerData, key) ==
  CASE key = "SUPERSTAR" ->
         RankDisplay("MVP++", "#FFAA00", PlusColor(playerData))
    [] key = "MVP_PLUS" ->
         RankDisplay("MVP+", "#00AAAA", PlusColor(playerData))
    [] key = "MVP" -> RankDisplay("MVP", "#00AAAA", "#00AAAA")
    [] key = "VIP_PLUS" -> RankDisplay("VIP+", "#00AA00", "#00AA00")
    [] key = "VIP" -> RankDisplay("VIP", "#00AA00", "#00AA00")
    [] key = "YOUTUBER" -> RankDisplay("YOUTUBER", "#FF5555", "#FF5555")
    [] key = "ADMIN" -> RankDisplay("ADMIN", "#FF5555", "#FF5555")
    [] key = "MODERATOR" -> RankDisplay("MODERATOR", "#00AAAA", "#00AAAA")
    [] key = "constructor" -> RankDisplay("Object", Undefined, Undefined)
    [] OTHER -> RankDisplay(key, Undefined, Undefined)

\* rankMapping[tag] || { name: tag, color: "#AAAAAA", plusColor: "#AAAAAA" }
RankOrGray(playerData, tag) ==
  IF RankMappingHas(tag) THEN RankMappingGet(playerData, tag)
  ELSE RankDisplay(tag, "#AAAAAA", "#AAAAAA")

formatHypixelRank(playerData) ==
  IF playerData.rank # Undefined /\ playerData.rank # "NORMAL"
  THEN RankOrGray(playerData, playerData.rank)
  ELSE IF playerData.monthlyPackageRank = "SUPERSTAR"
  THEN RankMappingGet(playerData, "SUPERSTAR")
  ELSE IF /\ playerData.monthlyPackageRank # Undefined
          /\ playerData.monthlyPackageRank # "NONE"
  THEN RankOrGray(playerData, playerData.monthlyPackageRank)
  ELSE IF playerData.newPackageRank # Undefined
  THEN RankOrGray(playerData, playerData.newPackageRank)
  ELSE RankDisplay("Non-Rank", "#AAAAAA", "#AAAAAA")

\* The levels whose first network experience value the level specification
\* draws its inputs around.
MaxLevel == 4

\* Math.sqrt is computed here on whole numbers below 2 ^ (2 * SqrtBits).
SqrtBits == 15

\* One bit of the root: it is set when the square still fits under n.
SqrtStep(root, bit, n) ==
  IF (root + bit) * (root + bit) <= n THEN root + bit ELSE root

\* The whole part of Math.sqrt(n), found bit by bit.
ISqrt(n) ==
  LET root[k \in 0..SqrtBits] ==
        IF k = 0 THEN 0
        ELSE SqrtStep(root[k - 1], 2 ^ (SqrtBits - k), n)
  IN root[SqrtBits]

\* calculateHypixelLevel with its operands exchanged:
\* Math.floor(2.5 - Math.sqrt(2 * networkExp + 30625) / 50).
calculateHypixelLevelSwapped(networkExp) ==
  (125 - ISqrt(2 * networkExp + 30625) - 49) \div 50

\* calculateHypixelLevel with Math.round in place of Math.floor.
calculateHypixelLevelRounded(networkExp) ==
  (ISqrt(2 * networkExp + 30625) - 125 + 25) \div 50

\* Math.floor(Math.sqrt(2 * networkExp + 30625) / 50 - 2.5) for a whole
\* networkExp >= 0: the floor of (sqrt(n) - 125) / 50 is the floor of
\* (ISqrt(n) - 125) / 50, and \div rounds down.
calculateHypixelLevel(networkExp) ==
  (ISqrt(2 * networkExp + 30625) - 125) \div 50

\* playerData.networkExp || 0; the field is <<>> when the profile lacks it.
NetworkExp(playerData) ==
  IF playerData.networkExp = <<>> THEN 0 ELSE playerData.networkExp[1]

\* The network experience values of the fetched profiles: the first value of
\* each level up to MaxLevel, its neighbours, and a value inside each level.
ExpValues ==
  {x \in UNION {LET first == ((50 * l + 125) * (50 * l + 125) - 30625) \div 2
                IN {first - 1, first, first + 1, first + 4321} :
                l \in 1..MaxLevel} : x >= 0}

\* The profile a modal handler fetched, and what it computed from it.
Profile(rank, monthly, package, plusColor, exp) ==
  [playerData |-> [rank |-> rank, monthlyPackageRank |-> monthly,
                   newPackageRank |-> package, rankPlusColor |-> plusColor,
                   networkExp |-> exp],
   level |-> <<>>, rank |-> NoRank]

NoProfile == Profile(Undefined, Undefined, Undefined, Undefined, <<>>)

\* A modal handler of u1 has fetched a profile with any tags.
RankInit ==
  /\ rev \in Revs
  /\ now = 0
  /\ ticks = 0
  /\ verifiedUsers = <<>>
  /\ cooldowns = <<>>
  /\ storageFile = EmptyStore
  /\ roles = [u \in Users |-> {"Unverified"}]
  /\ verifyButton = {}
  /\ unverifyPrompt = {}
  /\ modalOpen = {}
  /\ modalPc = [u \in Users |-> "idle"]
  /\ \E rank \in RankTags, monthly \in RankTags, package \in RankTags,
        plusColor \in PlusColors :
       modalLocal = [u \in Users |->
                       IF u \in Actors
                       THEN Profile(rank, monthly, package, plusColor, <<>>)
                       ELSE NoProfile]
  /\ modalLog = [u \in Users |-> <<>>]
  /\ unvPc = [u \in Users |-> "idle"]
  /\ haMessage = [u \in Users |-> NoMessage]
  /\ out = Silent

\* const rank = formatHypixelRank(playerData);
FormatRank(u) ==
  /\ out.kind # "formatHypixelRank"
  /\ modalLocal' = [modalLocal EXCEPT
                      ![u].rank = formatHypixelRank(modalLocal[u].playerData)]
  /\ out' = Out("formatHypixelRank", u, "none", FALSE, 0, <<>>, FALSE)
  /\ UNCHANGED <<rev, haMessage, clockVars, storeVars, roles, uiVars, modalPc, modalLog,
                 unvPc>>

RankNext == \E u \in Actors : FormatRank(u)

RankSpec == RankInit /\ [][RankNext]_vars

\* The modal handlers of two users have each fetched a profile with any
\* network experience, or none.
LevelInit ==
  /\ rev \in Revs
  /\ now = 0
  /\ ticks = 0
  /\ verifiedUsers = <<>>
  /\ cooldowns = <<>>
  /\ storageFile = EmptyStore
  /\ roles = [u \in Users |-> {"Unverified"}]
  /\ verifyButton = {}
  /\ unverifyPrompt = {}
  /\ modalOpen = {}
  /\ modalPc = [u \in Users |-> "idle"]
  /\ modalLocal \in
       [Users -> {Profile(Undefined, Undefined, Undefined, Undefined, exp) :
                    exp \in {<<>>} \cup {<<x>> : x \in ExpValues}}]
  /\ modalLog = [u \in Users |-> <<>>]
  /\ unvPc = [u \in Users |-> "idle"]
  /\ haMessage = [u \in Users |-> NoMessage]
  /\ out = Silent

\* const networkExp = playerData.networkExp || 0;
\* const level = calculateHypixelLevel(networkExp);
CalculateLevel(u) ==
  /\ modalLocal[u].level = <<>>
  /\ modalLocal' =
       [modalLocal EXCEPT
          ![u].level =
             <<calculateHypixelLevel(NetworkExp(modalLocal[u].playerData))>>]
  /\ out' = Out("calculateHypixelLevel", u, "none", FALSE, 0, <<>>, FALSE)
  /\ UNCHANGED <<rev, haMessage, clockVars, storeVars, roles, uiVars, modalPc, modalLog,
                 unvPc>>

LevelNext == \E u \in Users : CalculateLevel(u)

LevelSpec == LevelInit /\ [][LevelNext]_vars

\* ------------------------------- one user's handlers, with no role failure

\* Every stage a handler looked up found its role and the member.
AllFound(log) == \A k \in 1..Len(log) : log[k][3]

\* The stage of the unverify handler behind the one it is suspended at.
UnverifyFollowing(u) ==
  LET at == IF unvPc[u] = "idle" THEN 0
            ELSE Position(UnverifyChain, unvPc[u])
  IN IF at < Len(UnverifyChain) THEN UnverifyChain[at + 1] ELSE "idle"

\* The handlers of the main specification with every role call accepted,
\* every role and the member found, and every send and write succeeding.
PairNext ==
  \/ Deliver
  \/ \E d \in TickSteps, deleted \in BOOLEAN : Tick(d, deleted)
  \/ \E u \in Actors, isAdmin \in BOOLEAN : VerifyCommand(u, isAdmin)
  \/ \E u \in Actors : VerifyButtonA(u)
  \/ \E u \in Actors, staffRole \in BOOLEAN, hasPermission \in BOOLEAN :
        VerifybuttonCommand(u, staffRole, hasPermission)
  \/ \E u \in Actors, member \in BOOLEAN : VerifyButtonB(u, member)
  \/ \E u \in Actors : ModalSubmit(u)
  \/ \E u \in Actors, uuid \in UuidAnswers : ModalUuid(u, uuid)
  \/ \E u \in Actors, player \in PlayerAnswers : ModalPlayer(u, player)
  \/ \E u \in Actors, guild \in GuildAnswers : ModalGuild(u, guild)
  \/ \E u \in Actors :
        /\ ModalImage(u)
        /\ ~out'.escaped /\ AllFound(modalLog'[u]) /\ AllFound(out'.log)
  \/ \E u \in Actors :
        /\ ModalWelcome(u, TRUE)
        /\ ~out'.escaped /\ AllFound(modalLog'[u]) /\ AllFound(out'.log)
  \/ \E u \in Actors :
        /\ ModalRole(u, TRUE)
        /\ ~out'.escaped /\ AllFound(modalLog'[u]) /\ AllFound(out'.log)
  \/ \E u \in Actors :
        /\ UnverifyClick(u, TRUE)
        /\ unvPc'[u] = UnverifyFollowing(u)
  \/ \E u \in Actors :
        /\ UnverifyRole(u, TRUE)
        /\ unvPc'[u] = UnverifyFollowing(u)

PairSpec == Init /\ [][PairNext]_vars

\* ------------------------------------- the cooldown notice, over the hours

\* How far the clock advances between two events when the hours of the
\* notice are looked at: a millisecond, an hour, the cooldown less a
\* millisecond, and the cooldown.
NoticeSteps == {1, HourMs, CooldownMs - 1, CooldownMs}

NoticeInit == Init /\ rev = "A"

\* The handlers of the revision that shows the notice.
NoticeNext ==
  \/ Deliver
  \/ \E d \in NoticeSteps, deleted \in BOOLEAN : Tick(d, deleted)
  \/ \E u \in Actors, isAdmin \in BOOLEAN : VerifyCommand(u, isAdmin)
  \/ \E u \in Actors : VerifyButtonA(u)
  \/ \E u \in Actors : ModalSubmit(u)
  \/ \E u \in Actors, uuid \in UuidAnswers : ModalUuid(u, uuid)
  \/ \E u \in Actors, player \in PlayerAnswers : ModalPlayer(u, player)
  \/ \E u \in Actors, guild \in GuildAnswers : ModalGuild(u, guild)
  \/ \E u \in Actors : ModalImage(u)
  \/ \E u \in Actors, sent \in BOOLEAN : ModalWelcome(u, sent)
  \/ \E u \in Actors, accepted \in BOOLEAN : ModalRole(u, accepted)
  \/ \E u \in Actors, saved \in BOOLEAN : UnverifyClick(u, saved)
  \/ \E u \in Actors, accepted \in BOOLEAN : UnverifyRole(u, accepted)

NoticeSpec == NoticeInit /\ [][NoticeNext]_vars

\* ------------------------------------------------------ the relay command

\* The characters of "!ha", the prefix the handler tests.
HaPrefix == <<"!", "h", "a">>

AngelStaff == "Angel Staff"

\* The roles of a guild, by name and position; @everyone is at the bottom.
Everyone == [name |-> "@everyone", position |-> 0]
GuildRoleSets ==
  { {Everyone, [name |-> "Member", position |-> 1],
     [name |-> "Owner", position |-> 2]},
    {Everyone, [name |-> "Member", position |-> 1],
     [name |-> AngelStaff, position |-> 2],
     [name |-> "Owner", position |-> 3]} }

\* The roles a member of the guild can hold: always @everyone.
MemberRoleSets(guildRoles) ==
  {held \in SUBSET guildRoles : Everyone \in held}

\* The messages users send, as sequences of characters.
Contents ==
  { <<"!", "h", "a">>,
    <<"!", "h", "a", " ", " ">>,
    <<"!", "h", "a", " ", "h", "i", " ">>,
    <<"!", "h", "a", "t">>,
    <<" ", "!", "h", "a", " ", "h", "i">>,
    <<"h", "i">> }

WhiteSpace == {" "}

\* String.prototype.startsWith
StartsWith(s, prefix) ==
  /\ Len(s) >= Len(prefix)
  /\ SubSeq(s, 1, Len(prefix)) = prefix

\* String.prototype.slice(start), for 0 <= start
Slice(s, start) == SubSeq(s, start + 1, Len(s))

\* String.prototype.trim
RECURSIVE TrimStart(_)
TrimStart(s) ==
  IF s # <<>> /\ Head(s) \in WhiteSpace THEN TrimStart(Tail(s)) ELSE s

RECURSIVE TrimEnd(_)
TrimEnd(s) ==
  IF s # <<>> /\ s[Len(s)] \in WhiteSpace
  THEN TrimEnd(SubSeq(s, 1, Len(s) - 1))
  ELSE s

Trim(s) == TrimEnd(TrimStart(s))

\* roles.cache.find(role => role.name === name): the roles found, none or one
\* in the guilds above.
FindRole(guildRoles, name) == {role \in guildRoles : role.name = name}

\* HasPermission satisfied by any role the author holds.
HasPermissionAnyRole(memberRoles, angelStaffRole) == memberRoles # {}

\* memberRoles.some(role => role.position >= angelStaffRole.position)
HasPermission(memberRoles, angelStaffRole) ==
  \E role \in memberRoles : role.position >= angelStaffRole.position

\* The text the handler relays: what follows the prefix, trimmed.
HaText(content) == Trim(Slice(content, Len(HaPrefix)))

\* A message as it arrives: in the channel, no handler has touched it.
Arrived(content, guildRoles, memberRoles) ==
  [NoMessage EXCEPT !.content = content, !.guildRoles = guildRoles,
                    !.memberRoles = memberRoles, !.pc = "arrived"]

\* A message arrives and the handler runs up to its first await: it ignores
\* a message that does not start with the prefix, replies to one it
\* refuses, and otherwise asks the channel to send the text.
HaCommand(u, content, guildRoles, memberRoles) ==
  /\ out = Silent
  /\ haMessage[u].pc \notin {"send", "delete"}
  /\ LET message == Arrived(content, guildRoles, memberRoles)
         staff == FindRole(guildRoles, AngelStaff)
         refuse(reply) ==
           /\ haMessage' =
                [haMessage EXCEPT
                   ![u] = [message EXCEPT !.pc = "refused", !.reply = reply]]
           /\ out' = Out("ha", u, reply, FALSE, 0, <<>>, FALSE)
     IN  IF ~StartsWith(content, HaPrefix)
         THEN /\ haMessage' = [haMessage EXCEPT ![u] = message]
              /\ out' = Silent
         ELSE IF staff = {}
         THEN refuse("NoStaffRole")
         ELSE IF ~HasPermission(memberRoles, CHOOSE role \in staff : TRUE)
         THEN refuse("NoPermission")
         ELSE IF HaText(content) = <<>>
         THEN refuse("NoText")
         ELSE /\ haMessage' = [haMessage EXCEPT ![u] = [message EXCEPT !.pc = "send"]]
              /\ out' = Silent
  /\ UNCHANGED <<rev, clockVars, storeVars, roles, uiVars, modalVars, unvPc>>

\* await message.channel.send(text) settles: the text is in the channel and
\* the handler asks for the deletion of the message, or the send is
\* rejected and the rejection leaves the handler.
HaSend(u, sent) ==
  /\ out = Silent
  /\ haMessage[u].pc = "send"
  /\ IF sent
     THEN /\ haMessage' =
               [haMessage EXCEPT
                  ![u].relayed = Append(@, HaText(haMessage[u].content)),
                  ![u].deletes = @ + 1,
                  ![u].pc = "delete"]
          /\ out' = Silent
     ELSE /\ haMessage' = [haMessage EXCEPT ![u].pc = "escaped"]
          /\ out' = Threw("ha", u, "message.channel.send")
  /\ UNCHANGED <<rev, clockVars, storeVars, roles, uiVars, modalVars, unvPc>>

\* await message.delete().catch(...) settles: the message is gone, or the
\* rejection is caught and logged and the message stays.
HaDelete(u, deleted) ==
  /\ out = Silent
  /\ haMessage[u].pc = "delete"
  /\ haMessage' =
       [haMessage EXCEPT ![u].deleted = deleted, ![u].logged = ~deleted,
                         ![u].pc = "done"]
  /\ out' = Out("ha", u, "none", FALSE, 0, <<>>, FALSE)
  /\ UNCHANGED <<rev, clockVars, storeVars, roles, uiVars, modalVars, unvPc>>

RelayNext ==
  \/ Deliver
  \/ \E u \in Actors, content \in Contents, guildRoles \in GuildRoleSets :
       \E memberRoles \in MemberRoleSets(guildRoles) :
          HaCommand(u, content, guildRoles, memberRoles)
  \/ \E u \in Actors, sent \in BOOLEAN : HaSend(u, sent)
  \/ \E u \in Actors, deleted \in BOOLEAN : HaDelete(u, deleted)

RelaySpec == Init /\ [][RelayNext]_vars

\* ------------------------------------------------------------- properties

\* The store a revision keeps on disk holds user u as verified.
FileHasVerified(u) ==
  rev = "B" /\ SetHas(storageFile.verifiedUsers, u)

\* The stages of the modal handler that lie behind its three checks.
PastChecks == {"guild", "image"} \cup Range(ModalChain)

\* How often a handler's log holds the role call <<op, role>>, issued
\* (found = TRUE) or skipped because the role or the member was not found.
Logged(log, op, role, found) ==
  Cardinality({i \in 1..Len(log) : log[i] = <<op, role, found>>})

FailureReplies == {"NotFound", "Unavailable", "NotLinked"}

\* Claim C11, for the revision that persists the store: whenever a
\* verify-submit or unverify handler sends its reply, and whenever a handler
\* is suspended at an await, the content of the file is the in-memory
\* verified set and cooldown map as saveStorage writes them.
C11_FileIsMemoryAtReply ==
  (/\ rev = "B"
   /\ \/ out.kind \in {"modal", "unverify"} /\ out.reply # "none"
      \/ InFlight > 0)
    => storageFile = Serialize(verifiedUsers, cooldowns)

\* Claim C1: a user enters the verified store (in memory or on disk), or
\* gains the Verified role from the bot, only in a step of that user's own
\* modal handler that lies behind the three checks: the UUID lookup gave a
\* UUID and the handle linked in the fetched profile is exactly the
\* submitter's own tag.
C1_VerifiedOnlyByLinkedSubmission ==
  [][\A u \in Users :
       (\/ SetHas(verifiedUsers', u) /\ ~SetHas(verifiedUsers, u)
        \/ FileHasVerified(u)' /\ ~FileHasVerified(u)
        \/ "Verified" \in roles'[u] /\ "Verified" \notin roles[u])
       => /\ modalPc[u] \in PastChecks
          /\ modalLocal[u].uuid # Null
          /\ modalLocal[u].discord = Tag(u)]_vars

\* C1 happens: a submission went through, the user is in the store and
\* holds the role.
C1_Witness ==
  /\ out.kind = "modal" /\ out.reply = "Success" /\ out.user = "u1"
  /\ SetHas(verifiedUsers, "u1")
  /\ "Verified" \in roles["u1"]

\* A step of u's modal handler ends it with the reply of a failed check:
\* no later lookup follows, no role call was issued, and the store, the
\* file and the roles are as before the step.
C2_Refused(u, reply) ==
  /\ out'.kind = "modal" /\ out'.user = u /\ out'.reply = reply
  /\ modalPc'[u] = "idle"
  /\ modalLog[u] = <<>> /\ modalLog'[u] = <<>>
  /\ UNCHANGED <<verifiedUsers, cooldowns, storageFile, roles>>

\* Claim C2: the modal handler makes its checks in the order identity
\* lookup, attribute fetch, handle equality; the first check that fails
\* ends the handler with that check's message, and no step up to there
\* changes the verified set, the cooldown map, the file or the roles.
C2_ChecksInOrder ==
  [][\A u \in Users :
       /\ (modalPc[u] = "idle" /\ modalPc'[u] # "idle")
            => /\ modalPc'[u] = "uuid"
               /\ UNCHANGED <<verifiedUsers, cooldowns, storageFile, roles>>
       /\ (modalPc[u] = "uuid" /\ modalPc'[u] # "uuid")
            => \/ /\ modalPc'[u] = "player"
                  /\ modalLocal'[u].uuid # Null
                  /\ UNCHANGED <<verifiedUsers, cooldowns, storageFile, roles>>
               \/ C2_Refused(u, "NotFound") /\ out'.saw = Null
       /\ (modalPc[u] = "player" /\ modalPc'[u] # "player")
            => \/ /\ modalPc'[u] = "guild"
                  /\ modalLocal'[u].discord = Tag(u)
                  /\ UNCHANGED <<verifiedUsers, cooldowns, storageFile, roles>>
               \/ C2_Refused(u, "Unavailable") /\ out'.saw = Null
               \/ /\ C2_Refused(u, "NotLinked")
                  /\ out'.saw \notin {Null, Tag(u)}
       /\ (out'.kind = "modal" /\ out'.user = u /\ out'.reply \in FailureReplies
             /\ out = Silent)
            => modalPc[u] \in {"uuid", "player"}]_vars

\* C2 happens: a submission was refused for a handle that differs from the
\* tag in case only.
C2_Witness ==
  /\ out.kind = "modal" /\ out.user = "u1"
  /\ out.reply = "NotLinked" /\ out.saw = "alice#0001"

\* The modal handler of u ran to its end with the success reply, the
\* Administrator permission it read being admin.
Completed(u, admin) ==
  /\ out.kind = "modal" /\ out.user = u
  /\ out.reply = "Success" /\ out.admin = admin

\* The store half of C3: the user is verified with a cooldown of the time
\* of the write plus 21,600,000 ms.
C3_Stored(u) ==
  /\ SetHas(verifiedUsers, u)
  /\ MapHas(cooldowns, u)
  /\ MapGet(cooldowns, u) = now + 21600000

\* Claim C3 as the spec states it: after a non-administrator's submission
\* passed the checks and the handler completed, the user is verified with
\* cooldown = time of the write + 6 hours, and the handler issued exactly
\* one grant of Verified and exactly one revoke of Unverified.
C3_ExactlyOneGrantAndRevoke ==
  \A u \in Users :
    Completed(u, FALSE)
      => /\ C3_Stored(u)
         /\ Logged(out.log, "add", "Verified", TRUE) = 1
         /\ Logged(out.log, "remove", "Unverified", TRUE) = 1

\* Claim C3, amended: the store half as stated; the handler looks each of
\* the two roles up exactly once, and issues the grant of Verified (the
\* revoke of Unverified) exactly once when it finds the role and the
\* member, and not at all when it does not.
C3_OneGrantAndRevokeWhenFound ==
  \A u \in Users :
    Completed(u, FALSE)
      => /\ C3_Stored(u)
         /\ Logged(out.log, "add", "Verified", TRUE)
              + Logged(out.log, "add", "Verified", FALSE) = 1
         /\ Logged(out.log, "remove", "Unverified", TRUE)
              + Logged(out.log, "remove", "Unverified", FALSE) = 1
         /\ \A i \in 1..Len(out.log) :
              /\ out.log[i][2] = "Verified" => out.log[i][1] = "add"
              /\ out.log[i][2] = "Unverified" => out.log[i][1] = "remove"
         /\ Len(out.log) >= 2
         /\ out.log[1][2] = "Verified" /\ out.log[2][2] = "Unverified"

\* C3 happens: a non-administrator completed, both calls were issued.
C3_Witness ==
  /\ Completed("u1", FALSE)
  /\ Logged(out.log, "add", "Verified", TRUE) = 1
  /\ Logged(out.log, "remove", "Unverified", TRUE) = 1
  /\ MapGet(cooldowns, "u1") = now + 21600000

\* Claim C4: after a verification by an Administrator completed, the user
\* has no cooldown entry, whatever came before.
C4_AdminHasNoCooldown ==
  \A u \in Users : Completed(u, TRUE) => ~MapHas(cooldowns, u)

\* Claim C5 (what it says of the store): when the unverify handler has
\* completed, the user is not in the verified set and has no cooldown
\* entry.
C5_UnverifyClearsStore ==
  \A u \in Users :
    (out.kind = "unverify" /\ out.user = u /\ out.reply = "Unverified")
      => ~SetHas(verifiedUsers, u) /\ ~MapHas(cooldowns, u)

\* Claim C6: in memory and on disk, a user who is not verified has no
\* cooldown entry.
C6_NoCooldownUnlessVerified ==
  \A u \in Users :
    /\ ~SetHas(verifiedUsers, u) => ~MapHas(cooldowns, u)
    /\ rev = "B" =>
         (~SetHas(storageFile.verifiedUsers, u)
            => ~MapHas(storageFile.cooldowns, u))

\* The last step was user u starting a verification: !verify in rev A, a
\* click on the posted verify button in rev B.
Started(u) ==
  /\ out.user = u
  /\ \/ rev = "A" /\ out.kind = "verifyCommand"
     \/ rev = "B" /\ out.kind = "verifyButton"

\* Claim C7: a verified non-administrator who starts a verification while
\* now < cooldownUntil gets the cooldown notice, which states
\* ceil((cooldownUntil - now) / 3,600,000) hours.
C7_NoticeWhileOnCooldown ==
  \A u \in Users :
    (/\ Started(u) /\ ~out.admin
     /\ SetHas(verifiedUsers, u)
     /\ MapHas(cooldowns, u)
     /\ now < MapGet(cooldowns, u))
      => /\ out.reply = "CooldownNotice"
         /\ out.hours = CeilDiv(MapGet(cooldowns, u) - now, 3600000)

\* Claim C8: the cooldown test of !verify is strict. A verified
\* non-administrator whose cooldownUntil equals now is treated as expired
\* and gets the unverify prompt; one with now < cooldownUntil gets the
\* notice.
C8_CooldownTestIsStrict ==
  \A u \in Users :
    (/\ out.kind = "verifyCommand" /\ out.user = u /\ ~out.admin
     /\ SetHas(verifiedUsers, u)
     /\ MapHas(cooldowns, u))
      => /\ MapGet(cooldowns, u) = now
              => out.reply = "UnverifyPrompt" /\ u \in unverifyPrompt
         /\ now < MapGet(cooldowns, u) => out.reply = "CooldownNotice"

\* C8 happens: !verify at the very millisecond the cooldown ends.
C8_Witness ==
  /\ out.kind = "verifyCommand" /\ out.user = "u1" /\ ~out.admin
  /\ SetHas(verifiedUsers, "u1")
  /\ MapHas(cooldowns, "u1")
  /\ MapGet(cooldowns, "u1") = now
  /\ out.reply = "UnverifyPrompt"

\* Claim C9 (what it says of effects): while a non-administrator is
\* verified with an active cooldown, no start of a verification and no
\* modal submission of that user writes the store again or changes a role,
\* and no submission succeeds a second time.
C9_NoSecondEffect ==
  [][\A u \in Users :
       (/\ SetHas(verifiedUsers, u)
        /\ MapHas(cooldowns, u)
        /\ now < MapGet(cooldowns, u)
        /\ out'.user = u /\ ~out'.admin
        /\ out'.kind \in {"verifyCommand", "verifyButton", "modal"})
         => /\ UNCHANGED <<verifiedUsers, cooldowns, storageFile, roles>>
            /\ out'.reply # "Success"]_vars

\* Claim C10 (its second half): for a user who is verified, no step opens
\* the modal and no modal submission takes effect; an unverify has to
\* complete first.
C10_NoModalWhileVerified ==
  [][\A u \in Users :
       SetHas(verifiedUsers, u)
         => /\ u \in modalOpen' => u \in modalOpen
            /\ ~(out'.kind = "modal" /\ out'.user = u
                   /\ out'.reply = "Success")]_vars

\* Claim C12: saveStorage followed by loadStorage gives back the store that
\* was saved. In a start of the bot that finds the file saveStorage wrote
\* from the store in memory, the loaded store holds the same verified
\* users, and for each user the same cooldown timestamp or none.
C12_SaveThenLoad ==
  [][(/\ out'.kind = "loadStorage"
      /\ storageFile = Serialize(verifiedUsers, cooldowns))
       => /\ ~out'.escaped
          /\ \A u \in Users :
               /\ SetHas(verifiedUsers', u) <=> SetHas(verifiedUsers, u)
               /\ MapHas(cooldowns', u) <=> MapHas(cooldowns, u)
               /\ MapHas(cooldowns, u)
                    => MapGet(cooldowns', u) = MapGet(cooldowns, u)]_vars

\* A store with two verified users and two cooldowns was saved and then
\* loaded by a start of the bot.
C12_Witness ==
  /\ out.kind = "loadStorage"
  /\ Len(verifiedUsers) = 2
  /\ Len(cooldowns) = 2
  /\ cooldowns[1][2] = CooldownMs + 1
  /\ storageFile = Serialize(verifiedUsers, cooldowns)

\* Claim C13: loadStorage never fails; a missing file leaves the store
\* empty and is created holding the empty store; a file whose content is
\* malformed leaves both the verified set and the cooldown map empty and
\* is overwritten with the empty store.
C13_LoadNeverFails ==
  [][out'.kind = "loadStorage"
       => /\ ~out'.escaped
          /\ storageFile.shape \in BrokenShapes \cup {"missing"}
               => /\ verifiedUsers' = <<>>
                  /\ cooldowns' = <<>>
                  /\ storageFile' = EmptyStore]_vars

\* The table of the claim: the eight ranks the lookup table holds.
C14_Table(playerData, tag) ==
  CASE tag = "SUPERSTAR" ->
         RankDisplay("MVP++", "#FFAA00", PlusColor(playerData))
    [] tag = "MVP_PLUS" ->
         RankDisplay("MVP+", "#00AAAA", PlusColor(playerData))
    [] tag = "MVP" -> RankDisplay("MVP", "#00AAAA", "#00AAAA")
    [] tag = "VIP_PLUS" -> RankDisplay("VIP+", "#00AA00", "#00AA00")
    [] tag = "VIP" -> RankDisplay("VIP", "#00AA00", "#00AA00")
    [] tag = "YOUTUBER" -> RankDisplay("YOUTUBER", "#FF5555", "#FF5555")
    [] tag = "ADMIN" -> RankDisplay("ADMIN", "#FF5555", "#FF5555")
    [] tag = "MODERATOR" -> RankDisplay("MODERATOR", "#00AAAA", "#00AAAA")
    [] OTHER -> RankDisplay(tag, "#AAAAAA", "#AAAAAA")

\* Claim C14: formatHypixelRank gives, for every combination of the three
\* tags, the display of the first rule that matches: (1) a special tag other
\* than NORMAL gives its table entry, or the tag text in gray when the table
\* does not hold it; (2) the monthly tag SUPERSTAR gives MVP++; (3) a monthly
\* tag other than NONE gives its table entry or the gray fallback; (4) a
\* purchased tag gives its table entry or the gray fallback; (5) otherwise
\* Non-Rank.
C14_FirstMatchChain ==
  \A u \in Actors :
    out.kind = "formatHypixelRank" /\ out.user = u =>
      LET playerData == modalLocal[u].playerData
          special == playerData.rank
          monthly == playerData.monthlyPackageRank
          purchased == playerData.newPackageRank
      IN modalLocal[u].rank =
           CASE special # Undefined /\ special # "NORMAL" ->
                  C14_Table(playerData, special)
             [] special \in {Undefined, "NORMAL"} /\ monthly = "SUPERSTAR" ->
                  C14_Table(playerData, "SUPERSTAR")
             [] /\ special \in {Undefined, "NORMAL"}
                /\ monthly \notin {Undefined, "NONE", "SUPERSTAR"} ->
                  C14_Table(playerData, monthly)
             [] /\ special \in {Undefined, "NORMAL"}
                /\ monthly \in {Undefined, "NONE"}
                /\ purchased # Undefined ->
                  C14_Table(playerData, purchased)
             [] OTHER -> RankDisplay("Non-Rank", "#AAAAAA", "#AAAAAA")

\* Claim C15: of two profiles whose levels have been computed, the one with
\* no more network experience has no higher level.
C15_LevelIsMonotone ==
  \A u \in Users, v \in Users :
    (/\ modalLocal[u].level # <<>>
     /\ modalLocal[v].level # <<>>
     /\ modalLocal[u].playerData.networkExp # <<>>
     /\ modalLocal[v].playerData.networkExp # <<>>
     /\ modalLocal[u].playerData.networkExp[1]
          <= modalLocal[v].playerData.networkExp[1])
      => modalLocal[u].level[1] <= modalLocal[v].level[1]

\* Two levels were computed, the higher one from more network experience.
C15_Witness ==
  /\ modalLocal["u1"].level # <<>>
  /\ modalLocal["u2"].level # <<>>
  /\ modalLocal["u1"].playerData.networkExp # <<>>
  /\ modalLocal["u2"].playerData.networkExp # <<>>
  /\ modalLocal["u1"].playerData.networkExp[1]
       < modalLocal["u2"].playerData.networkExp[1]
  /\ modalLocal["u1"].level[1] < modalLocal["u2"].level[1]

\* Claim C16: the level computed for a verification is the largest whole L
\* with (50 * L + 125) ^ 2 <= 2 * networkExp + 30625, where a profile
\* without networkExp counts as networkExp = 0; for networkExp = 0 the
\* level is 1.
C16_LevelFormula ==
  \A u \in Users :
    modalLocal[u].level # <<>> =>
      LET exp == modalLocal[u].playerData.networkExp
          x == IF exp = <<>> THEN 0 ELSE exp[1]
          L == modalLocal[u].level[1]
      IN /\ (50 * L + 125) * (50 * L + 125) <= 2 * x + 30625
         /\ 2 * x + 30625 < (50 * (L + 1) + 125) * (50 * (L + 1) + 125)
         /\ x = 0 => L = 1

\* A level was computed for a profile without networkExp, and a level of
\* 3 for a profile at the first network experience of level 3.
C16_Witness ==
  /\ modalLocal["u1"].playerData.networkExp = <<>>
  /\ modalLocal["u1"].level = <<1>>
  /\ modalLocal["u2"].playerData.networkExp = <<22500>>
  /\ modalLocal["u2"].level = <<3>>

\* Claim C17: no failure inside a user-facing handler escapes it: whatever
\* external call fails, the handler's promise does not reject.
C17_NoFailureEscapes ==
  rev = "B" => ~out.escaped

\* Claim C18: a role call that is rejected, or a role that does not exist,
\* does not stop a verification. No modal handler ends by a role call
\* throwing: the one that ends without a reply was stopped by the welcome
\* send, or by saveStorage (rev B only), and then it has got as far as
\* adding the user to the verified set; and every verification that
\* reaches its success reply, whatever became of its role calls, has added
\* the user, set the cooldown of a non-administrator and written the store
\* to the file.
C18_RoleFailureIsSwallowed ==
  \A u \in Users :
    /\ (out.kind = "modal" /\ out.user = u /\ out.escaped)
         => /\ out.saw \in {"welcomeChannel.send", "saveStorage"}
            /\ out.saw = "saveStorage"
                 => rev = "B" /\ SetHas(verifiedUsers, u)
    /\ (out.kind = "modal" /\ out.user = u /\ out.reply = "Success")
         => /\ SetHas(verifiedUsers, u)
            /\ ~out.admin =>
                 /\ MapHas(cooldowns, u)
                 /\ MapGet(cooldowns, u) = now + CooldownMs
            /\ rev = "B" => storageFile = Serialize(verifiedUsers, cooldowns)

\* A non-administrator's verification replied with success although the
\* grant of Verified it issued was rejected and the Unverified role did not
\* exist: the user is in the store, with a cooldown, and in the file.
C18_Witness ==
  /\ rev = "B"
  /\ Completed("u1", FALSE)
  /\ Logged(out.log, "add", "Verified", TRUE) = 1
  /\ Logged(out.log, "remove", "Unverified", FALSE) = 1
  /\ "Verified" \notin roles["u1"]
  /\ SetHas(verifiedUsers, "u1")
  /\ MapHas(cooldowns, "u1")
  /\ storageFile = Serialize(verifiedUsers, cooldowns)

\* The record of user v in a store: whether v is verified, and the cooldown
\* of v, if any.
C19_Record(v, vu, cd) ==
  <<SetHas(vu, v), IF MapHas(cd, v) THEN <<MapGet(cd, v)>> ELSE <<>> >>

\* Claim C19, for handlers of different users that interleave at their
\* awaits: the record of a user changes only in a step of that user's own
\* handler, which writes what it would write alone (a verification that
\* ends: verified, the cooldown now + 6 h, or the cooldown as it was for an
\* administrator; an unverify: not verified, no cooldown), and when no
\* handler is left running the file holds the store in memory.
C19_OnlyOwnRecord ==
  [][/\ \A v \in Users :
          C19_Record(v, verifiedUsers', cooldowns')
              # C19_Record(v, verifiedUsers, cooldowns)
            => \/ /\ out'.kind = "modal" /\ out'.user = v
                  /\ out'.reply = "Success"
                  /\ C19_Record(v, verifiedUsers', cooldowns') =
                       IF out'.admin
                       THEN <<TRUE,
                              C19_Record(v, verifiedUsers, cooldowns)[2]>>
                       ELSE <<TRUE, <<now + CooldownMs>> >>
               \/ /\ \/ unvPc'[v] # unvPc[v]
                     \/ out'.kind = "unverify" /\ out'.user = v
                  /\ C19_Record(v, verifiedUsers', cooldowns')
                       = <<FALSE, <<>> >>
     /\ InFlight' = 0
          => storageFile' = Serialize(verifiedUsers', cooldowns')]_vars

\* Both handlers have completed: u1, who had the modal open, is verified
\* with a cooldown; u2, who was verified, has been unverified and given the
\* Unverified role; the file holds both results.
C19_Witness ==
  /\ InFlight = 0
  /\ Completed("u1", FALSE)
  /\ C19_Record("u1", verifiedUsers, cooldowns)
       = <<TRUE, <<now + CooldownMs>> >>
  /\ "u2" \in unverifyPrompt
  /\ C19_Record("u2", verifiedUsers, cooldowns) = <<FALSE, <<>> >>
  /\ roles["u2"] = {"Unverified"}
  /\ storageFile = Serialize(verifiedUsers, cooldowns)

\* The verification of user u replies with success in this step.
C20_Succeeds(u) ==
  out'.kind = "modal" /\ out'.user = u /\ out'.reply = "Success"

\* The guild answer that fails, or names no guild, is kept as "No Guild"
\* and the handler goes on to the welcome image.
C20_NoGuildGoesOn(u) ==
  (modalPc[u] = "guild" /\ modalPc'[u] # "guild")
    => /\ modalPc'[u] = "image"
       /\ modalLocal'[u].guildName \in GuildAnswers \cup {"No Guild"}
       /\ modalLocal'[u].guildName # Null
       /\ ~out'.escaped

\* Claim C20 as stated, for the revision that knows the Angel role: a
\* verification that succeeds has issued the grant of Angel if and only if
\* the guild name it kept is "Heavenly Spirits"; a failed guild lookup is
\* kept as "No Guild" and does not end the handler.
C20_AngelIffGuild ==
  [][\A u \in Users :
       /\ C20_NoGuildGoesOn(u)
       /\ (rev = "B" /\ C20_Succeeds(u))
            => (Logged(out'.log, "add", "Angel", TRUE) = 1
                  <=> modalLocal[u].guildName = "Heavenly Spirits")]_vars

\* Claim C20, amended: in rev B a verification that succeeds has looked the
\* Angel role up exactly when the guild name it kept is "Heavenly Spirits",
\* and has issued the grant, once, exactly when it then found the role and
\* the member; with any other guild name, "No Guild" among them, and in
\* rev A, it has neither looked the role up nor awaited a grant. A failed
\* guild lookup is kept as "No Guild" and does not end the handler.
C20_AngelIffGuildAndFound ==
  [][\A u \in Users :
       /\ C20_NoGuildGoesOn(u)
       /\ modalPc'[u] = "addAngel"
            => rev = "B" /\ modalLocal'[u].guildName = "Heavenly Spirits"
       /\ C20_Succeeds(u)
            => /\ Logged(out'.log, "add", "Angel", TRUE)
                    + Logged(out'.log, "add", "Angel", FALSE)
                    = IF /\ rev = "B"
                         /\ modalLocal[u].guildName = "Heavenly Spirits"
                      THEN 1 ELSE 0
               /\ Logged(out'.log, "add", "Angel", TRUE) = 1
                    => modalPc[u] = "addAngel"]_vars

\* A verification of rev B succeeded after the grant of Angel was issued
\* and accepted.
C20_Witness ==
  /\ rev = "B"
  /\ Completed("u1", FALSE)
  /\ Logged(out.log, "add", "Angel", TRUE) = 1
  /\ "Angel" \in roles["u1"]

\* What C21 requires of a message for a relay: the Angel Staff role exists,
\* the author holds a role at least as high, and something other than
\* white space follows the command.
C21_Allowed(message) ==
  /\ \E staff \in message.guildRoles :
        /\ staff.name = AngelStaff
        /\ \E role \in message.memberRoles : role.position >= staff.position
  /\ \E i \in (Len(HaPrefix) + 1)..Len(message.content) :
        message.content[i] \notin WhiteSpace

\* C21, first part: a text is relayed to the channel only for a message that
\* meets the three conditions, and it is the text after the command.
C21_RelayOnlyWhenAllowed ==
  \A u \in Users :
     haMessage[u].relayed # <<>>
       => /\ C21_Allowed(haMessage[u])
          /\ StartsWith(haMessage[u].content, HaPrefix)
          /\ Len(haMessage[u].relayed) = 1
          /\ haMessage[u].relayed[1] # <<>>

\* C21, second part: a command that fails one of the conditions is refused
\* with a reply; nothing is relayed for it, no deletion is asked for and
\* the invoking message stays.
C21_RefusedDoesNothing ==
  \A u \in Users :
     /\ haMessage[u].pc = "refused"
          <=> /\ StartsWith(haMessage[u].content, HaPrefix)
              /\ ~C21_Allowed(haMessage[u])
     /\ haMessage[u].pc = "refused"
          => /\ haMessage[u].reply \in {"NoStaffRole", "NoPermission", "NoText"}
             /\ haMessage[u].relayed = <<>>
             /\ haMessage[u].deletes = 0
             /\ ~haMessage[u].deleted

\* C21 as stated: the two parts above, and once the handler of a relayed
\* message has ended the invoking message is deleted.
C21_DeletedAfterRelay ==
  /\ C21_RelayOnlyWhenAllowed
  /\ C21_RefusedDoesNothing
  /\ \A u \in Users : haMessage[u].pc = "done" => haMessage[u].deleted

\* C21: the !ha handler relays the text only when the Angel Staff role
\* exists, the author holds a role at least as high and the text is not
\* empty; a refused command relays nothing and keeps the invoking message;
\* after a relay the handler asks once for the deletion of the invoking
\* message, which is gone when the platform accepts the deletion and stays,
\* with the failure logged, when the platform rejects it.
C21_DeletionAskedAfterRelay ==
  /\ C21_RelayOnlyWhenAllowed
  /\ C21_RefusedDoesNothing
  /\ \A u \in Users :
        /\ haMessage[u].relayed # <<>> <=> haMessage[u].deletes = 1
        /\ haMessage[u].deletes \in {0, 1}
        /\ haMessage[u].deleted => haMessage[u].relayed # <<>>
        /\ haMessage[u].pc = "done"
             => /\ haMessage[u].relayed # <<>>
                /\ haMessage[u].deleted <=> ~haMessage[u].logged

\* A relayed message whose deletion the platform rejected.
C21_Witness ==
  \E u \in Users :
     /\ haMessage[u].pc = "done"
     /\ haMessage[u].relayed = << <<"h", "i">> >>
     /\ ~haMessage[u].deleted
     /\ haMessage[u].logged


\* C22: with no role-mutation failure, when a handler of a user completes a
\* verification or an unverification and no handler of that user is still
\* running, the store and the roles agree: the user is in verifiedUsers if
\* and only if they hold Verified, and they hold exactly one of Verified
\* and Unverified.
C22_StoreAndRolesAgree ==
  \A u \in Actors :
     /\ out.user = u
     /\ out.reply \in {"Success", "Unverified"}
     /\ modalPc[u] = "idle"
     /\ unvPc[u] = "idle"
     => /\ SetHas(verifiedUsers, u) <=> "Verified" \in roles[u]
        /\ "Verified" \in roles[u] <=> "Unverified" \notin roles[u]


\* The hours a user can be told, when every cooldown is six hours long.
C23_Hours == 1..(CooldownMs \div HourMs)

C23_WitnessSix ==
  /\ out.kind = "verifyCommand"
  /\ out.reply = "CooldownNotice"
  /\ out.hours = 6
  /\ MapGet(cooldowns, out.user) - now = CooldownMs

====
